---- MODULE Spec2Model ----
(***************************************************************************)
(* Model of apca's ApiInfo (src/api_info.rs): the configuration value and  *)
(* its two constructors, ApiInfo::from_parts and ApiInfo::from_env.        *)
(*                                                                         *)
(* Strings are sequences of one-character strings.  An OsString is a       *)
(* sequence of the same units plus InvalidUnit, a unit that is not valid   *)
(* Unicode (a lone 0xFF byte on Unix).                                     *)
(***************************************************************************)
EXTENDS Integers, Sequences, FiniteSets, TLC

VARIABLES env, args, called, result

vars == <<env, args, called, result>>

-----------------------------------------------------------------------------
(* Bounds *)

MaxUrlLen == 3

MaxCredLen == 1

-----------------------------------------------------------------------------
(* Constants of src/api_info.rs *)

ENV_API_BASE_URL == "APCA_API_BASE_URL"

ENV_KEY_ID == "APCA_API_KEY_ID"

ENV_SECRET == "APCA_API_SECRET_KEY"

\* crate::api::API_BASE_URL, the default endpoint: a fixed text that is a URL.
API_BASE_URL == <<"a", ":", "a">>

-----------------------------------------------------------------------------
(* Texts *)

UrlChars == {"a", "A", ":", " "}

CredChars == {"x", "X", " "}

InvalidUnit == "0xFF"

SeqsUpTo(S, n) == UNION {[1..m -> S] : m \in 0..n}

\* Option<T>
None == [some |-> FALSE, val |-> <<>>]

Some(v) == [some |-> TRUE, val |-> v]

\* Result<T, E>
Ok(v) == [tag |-> "Ok", value |-> v]

Err(e) == [tag |-> "Err", error |-> e]

\* crate::Error
ErrorUrl(e) == [variant |-> "Url", source |-> e]

ErrorStr(msg) == [variant |-> "Str", source |-> msg]

\* format!("{} environment variable not found", name)
NotFoundMsg(name) == <<name, " environment variable not found">>

\* format!("{} environment variable is not a valid string", name)
NotValidMsg(name) == <<name, " environment variable is not a valid string">>

-----------------------------------------------------------------------------
(* std: OsString::into_string, ToString for str, env::var_os *)

\* Variant: String::from_utf8_lossy instead of into_string.
into_string_lossy(os) ==
  Ok([i \in 1..Len(os) |-> IF os[i] = InvalidUnit THEN "U+FFFD" ELSE os[i]])

into_string(os) ==
  IF \A i \in 1..Len(os) : os[i] # InvalidUnit
    THEN Ok(os)
    ELSE Err(os)

to_string(s) == [i \in 1..Len(s) |-> s[i]]

var_os(e, name) == e[name]

-----------------------------------------------------------------------------
(* url: Url::parse without a base URL, on texts over UrlChars *)

c0_control_or_space(c) == c = " "

ascii_alpha(c) == c \in {"a", "A"}

to_ascii_lowercase(c) == IF c = "A" THEN "a" ELSE c

RECURSIVE trim_start(_)
trim_start(s) ==
  IF s # <<>> /\ c0_control_or_space(Head(s)) THEN trim_start(Tail(s)) ELSE s

RECURSIVE trim_end(_)
trim_end(s) ==
  IF s # <<>> /\ c0_control_or_space(s[Len(s)])
    THEN trim_end(SubSeq(s, 1, Len(s) - 1))
    ELSE s

trim_matches(s) == trim_end(trim_start(s))

\* Parser::parse_scheme: the position of the ':' that ends the scheme, or 0.
RECURSIVE scheme_scan(_, _)
scheme_scan(s, i) ==
  IF i > Len(s) THEN 0
  ELSE IF s[i] = ":" THEN i
  ELSE IF ascii_alpha(s[i]) THEN scheme_scan(s, i + 1)
  ELSE 0

parse_scheme(s) ==
  IF s = <<>> \/ ~ascii_alpha(Head(s)) THEN 0 ELSE scheme_scan(s, 2)

\* The scheme is lower-cased; the rest is a cannot-be-a-base path kept as is.
UrlParse(input) ==
  LET s == trim_matches(input)
      colon == parse_scheme(s)
  IN  IF colon = 0
        THEN Err(<<"RelativeUrlWithoutBase">>)
        ELSE Ok([serialization |->
                   [i \in 1..Len(s) |->
                      IF i < colon THEN to_ascii_lowercase(s[i]) ELSE s[i]],
                 scheme_end |-> colon - 1])

-----------------------------------------------------------------------------
(* ApiInfo *)

ApiInfo(api_base_url, key_id, secret) ==
  [api_base_url |-> api_base_url, key_id |-> key_id, secret |-> secret]

\* Variant: the key id is trimmed before it is stored.
from_parts_trimmed(api_base_url, key_id, secret) ==
  LET url == UrlParse(api_base_url)
  IN  IF url.tag = "Err"
        THEN Err(ErrorUrl(url.error))
        ELSE Ok(ApiInfo(url.value, trim_matches(to_string(key_id)),
                        to_string(secret)))

\* Variant: an empty key id is rejected.
from_parts_nonempty_key(api_base_url, key_id, secret) ==
  LET url == UrlParse(api_base_url)
  IN  IF url.tag = "Err"
        THEN Err(ErrorUrl(url.error))
        ELSE IF key_id = <<>>
          THEN Err(ErrorStr(<<"key_id", " is empty">>))
          ELSE Ok(ApiInfo(url.value, to_string(key_id), to_string(secret)))

from_parts(api_base_url, key_id, secret) ==
  LET url == UrlParse(api_base_url)
  IN  IF url.tag = "Err"
        THEN Err(ErrorUrl(url.error))
        ELSE Ok(ApiInfo(url.value, to_string(key_id), to_string(secret)))

\* Variant: no default, an absent entry is read as the empty text.
base_url_text_no_default(e) ==
  LET os == IF var_os(e, ENV_API_BASE_URL).some
              THEN var_os(e, ENV_API_BASE_URL).val
              ELSE <<>>
      text == into_string(os)
  IN  IF text.tag = "Err"
        THEN Err(ErrorStr(NotValidMsg(ENV_API_BASE_URL)))
        ELSE text

\* Variant: the entry is mandatory, like the two credentials.
base_url_text_required(e) ==
  IF ~var_os(e, ENV_API_BASE_URL).some
    THEN Err(ErrorStr(NotFoundMsg(ENV_API_BASE_URL)))
    ELSE LET text == into_string(var_os(e, ENV_API_BASE_URL).val)
         IN  IF text.tag = "Err"
               THEN Err(ErrorStr(NotValidMsg(ENV_API_BASE_URL)))
               ELSE text

\* Variant: an empty or undecodable entry falls back to the default too.
base_url_text_fallback(e) ==
  LET os == IF var_os(e, ENV_API_BASE_URL).some
              THEN var_os(e, ENV_API_BASE_URL).val
              ELSE API_BASE_URL
      text == into_string(os)
  IN  IF text.tag = "Err" \/ os = <<>>
        THEN Ok(API_BASE_URL)
        ELSE text

\* let api_base_url = var_os(..).unwrap_or_else(..).into_string().map_err(..)?
base_url_text(e) ==
  LET os == IF var_os(e, ENV_API_BASE_URL).some
              THEN var_os(e, ENV_API_BASE_URL).val
              ELSE API_BASE_URL
      text == into_string(os)
  IN  IF text.tag = "Err"
        THEN Err(ErrorStr(NotValidMsg(ENV_API_BASE_URL)))
        ELSE text

\* Variant: an absent entry is read as the empty text (unwrap_or_default).
required_text_default(e, name) ==
  LET os == IF var_os(e, name).some THEN var_os(e, name).val ELSE <<>>
      text == into_string(os)
  IN  IF text.tag = "Err"
        THEN Err(ErrorStr(NotValidMsg(name)))
        ELSE text

\* Variant: the decoded text is trimmed.
required_text_trimmed(e, name) ==
  IF ~var_os(e, name).some
    THEN Err(ErrorStr(NotFoundMsg(name)))
    ELSE LET text == into_string(var_os(e, name).val)
         IN  IF text.tag = "Err"
               THEN Err(ErrorStr(NotValidMsg(name)))
               ELSE Ok(trim_matches(text.value))

\* var_os(name).ok_or_else(..)?.into_string().map_err(..)?
required_text(e, name) ==
  IF ~var_os(e, name).some
    THEN Err(ErrorStr(NotFoundMsg(name)))
    ELSE LET text == into_string(var_os(e, name).val)
         IN  IF text.tag = "Err"
               THEN Err(ErrorStr(NotValidMsg(name)))
               ELSE text

\* Variant: the secret is looked up before the key id.
from_env_secret_first(e) ==
  LET api_base_url == base_url_text(e)
  IN  IF api_base_url.tag = "Err" THEN Err(api_base_url.error)
      ELSE
  LET url == UrlParse(api_base_url.value)
  IN  IF url.tag = "Err" THEN Err(ErrorUrl(url.error))
      ELSE
  LET secret == required_text(e, ENV_SECRET)
  IN  IF secret.tag = "Err" THEN Err(secret.error)
      ELSE
  LET key_id == required_text(e, ENV_KEY_ID)
  IN  IF key_id.tag = "Err" THEN Err(key_id.error)
      ELSE Ok(ApiInfo(url.value, key_id.value, secret.value))

\* Variant: the credentials are looked up before the base URL.
from_env_creds_first(e) ==
  LET key_id == required_text(e, ENV_KEY_ID)
  IN  IF key_id.tag = "Err" THEN Err(key_id.error)
      ELSE
  LET secret == required_text(e, ENV_SECRET)
  IN  IF secret.tag = "Err" THEN Err(secret.error)
      ELSE
  LET api_base_url == base_url_text(e)
  IN  IF api_base_url.tag = "Err" THEN Err(api_base_url.error)
      ELSE
  LET url == UrlParse(api_base_url.value)
  IN  IF url.tag = "Err" THEN Err(ErrorUrl(url.error))
      ELSE Ok(ApiInfo(url.value, key_id.value, secret.value))

from_env(e) ==
  LET api_base_url == base_url_text(e)
  IN  IF api_base_url.tag = "Err" THEN Err(api_base_url.error)
      ELSE
  LET url == UrlParse(api_base_url.value)
  IN  IF url.tag = "Err" THEN Err(ErrorUrl(url.error))
      ELSE
  LET key_id == required_text(e, ENV_KEY_ID)
  IN  IF key_id.tag = "Err" THEN Err(key_id.error)
      ELSE
  LET secret == required_text(e, ENV_SECRET)
  IN  IF secret.tag = "Err" THEN Err(secret.error)
      ELSE Ok(ApiInfo(url.value, key_id.value, secret.value))

-----------------------------------------------------------------------------
(* State machine: an environment and a caller's arguments, then one call *)

EnvNames == {ENV_API_BASE_URL, ENV_KEY_ID, ENV_SECRET}

OsValues(chars, n) ==
  {None} \cup {Some(v) : v \in SeqsUpTo(chars \cup {InvalidUnit}, n)}

Envs ==
  {[name \in EnvNames |->
      CASE name = ENV_API_BASE_URL -> b
        [] name = ENV_KEY_ID -> k
        [] name = ENV_SECRET -> s] :
     b \in OsValues(UrlChars, MaxUrlLen),
     k \in OsValues(CredChars, MaxCredLen),
     s \in OsValues(CredChars, MaxCredLen)}

Args ==
  [api_base_url : SeqsUpTo(UrlChars, MaxUrlLen),
   key_id : SeqsUpTo(CredChars, MaxCredLen),
   secret : SeqsUpTo(CredChars, MaxCredLen)]

EmptyEnv == [name \in EnvNames |-> None]

EmptyArgs == [api_base_url |-> <<>>, key_id |-> <<>>, secret |-> <<>>]

NoResult == [tag |-> "None"]

Init ==
  /\ \/ env \in Envs /\ args = EmptyArgs
     \/ env = EmptyEnv /\ args \in Args
  /\ called = "none"
  /\ result = NoResult

CallFromParts ==
  /\ called' = "from_parts"
  /\ result' = from_parts(args.api_base_url, args.key_id, args.secret)
  /\ UNCHANGED <<env, args>>

CallFromEnv ==
  /\ called' = "from_env"
  /\ result' = from_env(env)
  /\ UNCHANGED <<env, args>>

Next == CallFromParts \/ CallFromEnv

Spec == Init /\ [][Next]_vars

-----------------------------------------------------------------------------
(* Vocabulary of the properties *)

IsText(os) == \A i \in 1..Len(os) : os[i] # InvalidUnit

Unset(name) == ~env[name].some

SetText(name) == env[name].some /\ IsText(env[name].val)

SetNotText(name) == env[name].some /\ ~IsText(env[name].val)

Parses(text) == UrlParse(text).tag = "Ok"

\* The base-URL entry is unset (default endpoint) or is text that is a URL.
BaseUrlGood ==
  \/ Unset(ENV_API_BASE_URL)
  \/ SetText(ENV_API_BASE_URL) /\ Parses(env[ENV_API_BASE_URL].val)

MissingError(name) == Err(ErrorStr(NotFoundMsg(name)))

EncodingError(name) == Err(ErrorStr(NotValidMsg(name)))

UrlError(text) == Err(ErrorUrl(UrlParse(text).error))

-----------------------------------------------------------------------------
(* Properties *)

\* C1: when the URL text parses, from_parts succeeds and its fields are
\* exactly the parsed URL, the key id and the secret as they were given.
C1_FromPartsVerbatim ==
  (called = "from_parts" /\ Parses(args.api_base_url)) =>
     /\ result.tag = "Ok"
     /\ result.value.api_base_url = UrlParse(args.api_base_url).value
     /\ result.value.key_id = args.key_id
     /\ result.value.secret = args.secret

C1_Witness ==
  /\ called = "from_parts"
  /\ result.tag = "Ok"
  /\ args.key_id = <<" ">>
  /\ args.secret = <<>>
  /\ result.value.key_id = <<" ">>

\* C2: from_parts fails exactly when the URL text fails to parse, with the
\* URL parse error and no configuration value, whatever the credentials.
C2_FromPartsOnlyUrlError ==
  called = "from_parts" =>
     /\ result.tag = "Err" <=> ~Parses(args.api_base_url)
     /\ result.tag = "Err" =>
          /\ result = UrlError(args.api_base_url)
          /\ DOMAIN result = {"tag", "error"}

C2_Witness ==
  /\ called = "from_parts"
  /\ ~Parses(args.api_base_url)
  /\ args.key_id # <<>>
  /\ result.tag = "Err"
  /\ result.error.variant = "Url"

\* C3 as stated: with the key-id entry unset, from_env reports the key-id
\* entry as missing whatever the state of the other two entries.
C3_Original ==
  (called = "from_env" /\ Unset(ENV_KEY_ID)) =>
     result = MissingError(ENV_KEY_ID)

\* C3 amended: with the key-id entry unset and the base-URL entry unset or
\* set to text that parses as a URL, from_env reports the key-id entry as
\* missing whatever the state of the secret entry.
C3_KeyIdMissing ==
  (called = "from_env" /\ Unset(ENV_KEY_ID) /\ BaseUrlGood) =>
     result = MissingError(ENV_KEY_ID)

C3_Witness ==
  /\ called = "from_env"
  /\ Unset(ENV_KEY_ID)
  /\ SetText(ENV_API_BASE_URL)
  /\ Unset(ENV_SECRET)
  /\ result = MissingError(ENV_KEY_ID)

\* C4: with all three entries set to text, from_env returns what from_parts
\* returns for the same three texts.
C4_FromEnvEqualsFromParts ==
  (/\ called = "from_env"
   /\ SetText(ENV_API_BASE_URL)
   /\ SetText(ENV_KEY_ID)
   /\ SetText(ENV_SECRET)) =>
     result = from_parts(env[ENV_API_BASE_URL].val, env[ENV_KEY_ID].val,
                         env[ENV_SECRET].val)

C4_Witness ==
  /\ called = "from_env"
  /\ SetText(ENV_API_BASE_URL)
  /\ env[ENV_KEY_ID] = Some(<<" ">>)
  /\ env[ENV_SECRET] = Some(<<"X">>)
  /\ result.tag = "Ok"
  /\ result.value.api_base_url.serialization # env[ENV_API_BASE_URL].val

\* C5: with the base-URL entry unset and both credentials set to text,
\* from_env succeeds with the parsed default endpoint and the two texts.
C5_DefaultEndpoint ==
  (/\ called = "from_env"
   /\ Unset(ENV_API_BASE_URL)
   /\ SetText(ENV_KEY_ID)
   /\ SetText(ENV_SECRET)) =>
     /\ Parses(API_BASE_URL)
     /\ result = Ok(ApiInfo(UrlParse(API_BASE_URL).value,
                            env[ENV_KEY_ID].val, env[ENV_SECRET].val))

C5_Witness ==
  /\ called = "from_env"
  /\ Unset(ENV_API_BASE_URL)
  /\ SetText(ENV_KEY_ID)
  /\ SetText(ENV_SECRET)
  /\ result.tag = "Ok"
  /\ result.value.api_base_url.serialization = API_BASE_URL

\* C6: with the secret entry unset, the key-id entry set to text and the
\* base-URL entry unset or a URL, from_env reports the secret as missing.
C6_SecretMissing ==
  (/\ called = "from_env"
   /\ Unset(ENV_SECRET)
   /\ SetText(ENV_KEY_ID)
   /\ BaseUrlGood) =>
     result = MissingError(ENV_SECRET)

C6_Witness ==
  /\ called = "from_env"
  /\ Unset(ENV_SECRET)
  /\ SetText(ENV_KEY_ID)
  /\ SetText(ENV_API_BASE_URL)
  /\ result = MissingError(ENV_SECRET)

\* The checks that precede the decoding of an entry all pass.
ChecksBeforePass(name) ==
  CASE name = ENV_API_BASE_URL -> TRUE
    [] name = ENV_KEY_ID -> BaseUrlGood
    [] name = ENV_SECRET -> BaseUrlGood /\ SetText(ENV_KEY_ID)

\* C7: an entry that is set but is not text, and is the first check to fail,
\* makes from_env fail with the not-a-valid-string error naming that entry;
\* that error is neither the missing-variable error nor a URL error nor the
\* error of another entry, and no configuration is produced from the value.
C7_InvalidEncoding ==
  called = "from_env" =>
     \A name \in EnvNames :
        (SetNotText(name) /\ ChecksBeforePass(name)) =>
           /\ result = EncodingError(name)
           /\ result # MissingError(name)
           /\ result.error.variant # "Url"
           /\ \A other \in EnvNames \ {name} : result # EncodingError(other)

C7_Witness ==
  /\ called = "from_env"
  /\ SetText(ENV_API_BASE_URL)
  /\ SetText(ENV_KEY_ID)
  /\ SetNotText(ENV_SECRET)
  /\ result = EncodingError(ENV_SECRET)

\* The outcome of each of the four checks taken on its own, in the order
\* base-URL decode, URL parse, key id, secret.
BaseOs == IF Unset(ENV_API_BASE_URL) THEN API_BASE_URL
                                      ELSE env[ENV_API_BASE_URL].val

CheckOutcomes ==
  << IF IsText(BaseOs) THEN Ok(BaseOs) ELSE EncodingError(ENV_API_BASE_URL),
     IF ~IsText(BaseOs) \/ Parses(BaseOs) THEN Ok(BaseOs) ELSE UrlError(BaseOs),
     IF Unset(ENV_KEY_ID) THEN MissingError(ENV_KEY_ID)
     ELSE IF SetNotText(ENV_KEY_ID) THEN EncodingError(ENV_KEY_ID)
     ELSE Ok(env[ENV_KEY_ID].val),
     IF Unset(ENV_SECRET) THEN MissingError(ENV_SECRET)
     ELSE IF SetNotText(ENV_SECRET) THEN EncodingError(ENV_SECRET)
     ELSE Ok(env[ENV_SECRET].val) >>

FailingChecks == {i \in 1..4 : CheckOutcomes[i].tag = "Err"}

FirstFailingCheck == CHOOSE i \in FailingChecks : \A j \in FailingChecks : i <= j

\* C8: from_env returns the error of the first failing check only, in the
\* order base-URL decode, URL parse, key id, secret: with both credentials
\* unset the error names the key id, and a failing base URL wins over a
\* missing credential.
C8_FirstFailureWins ==
  called = "from_env" =>
     /\ FailingChecks # {} => result = CheckOutcomes[FirstFailingCheck]
     /\ FailingChecks = {} => result.tag = "Ok"
     /\ (Unset(ENV_KEY_ID) /\ Unset(ENV_SECRET) /\ BaseUrlGood) =>
           result = MissingError(ENV_KEY_ID)
     /\ (~BaseUrlGood /\ (Unset(ENV_KEY_ID) \/ Unset(ENV_SECRET))) =>
           result = IF SetNotText(ENV_API_BASE_URL)
                      THEN EncodingError(ENV_API_BASE_URL)
                      ELSE UrlError(BaseOs)

C8_Witness ==
  /\ called = "from_env"
  /\ SetText(ENV_API_BASE_URL)
  /\ ~Parses(env[ENV_API_BASE_URL].val)
  /\ Unset(ENV_KEY_ID)
  /\ Unset(ENV_SECRET)
  /\ result = UrlError(env[ENV_API_BASE_URL].val)

\* C9: from_env returns either a configuration with all three fields
\* populated (a parsed URL and the two decoded entries) or one error and no
\* configuration, and never reports the base-URL entry as missing.
C9_AllOrNothing ==
  called = "from_env" =>
     /\ \/ /\ result.tag = "Ok"
           /\ DOMAIN result = {"tag", "value"}
           /\ IsText(BaseOs) /\ Parses(BaseOs)
           /\ result.value.api_base_url = UrlParse(BaseOs).value
           /\ SetText(ENV_KEY_ID) /\ result.value.key_id = env[ENV_KEY_ID].val
           /\ SetText(ENV_SECRET) /\ result.value.secret = env[ENV_SECRET].val
        \/ /\ result.tag = "Err"
           /\ DOMAIN result = {"tag", "error"}
           /\ result.error.variant \in {"Url", "Str"}
     /\ result # MissingError(ENV_API_BASE_URL)

C9_Witness ==
  /\ called = "from_env"
  /\ Unset(ENV_API_BASE_URL)
  /\ SetNotText(ENV_KEY_ID)
  /\ result.tag = "Err"

\* C10: a base-URL entry that is set is never replaced by the default: if it
\* is not text from_env fails with the not-a-valid-string error naming it,
\* and if it is text that is not a URL (the empty text included) from_env
\* fails with the URL parse error, even with both credentials set to text.
C10_NoFallbackWhenSet ==
  (called = "from_env" /\ ~Unset(ENV_API_BASE_URL)) =>
     /\ SetNotText(ENV_API_BASE_URL) =>
           result = EncodingError(ENV_API_BASE_URL)
     /\ (SetText(ENV_API_BASE_URL) /\ ~Parses(env[ENV_API_BASE_URL].val)) =>
           result = UrlError(env[ENV_API_BASE_URL].val)
     /\ result.tag = "Ok" =>
           result.value.api_base_url = UrlParse(env[ENV_API_BASE_URL].val).value

C10_Witness ==
  /\ called = "from_env"
  /\ env[ENV_API_BASE_URL] = Some(<<>>)
  /\ SetText(ENV_KEY_ID)
  /\ SetText(ENV_SECRET)
  /\ result = UrlError(<<>>)

====
